---- MODULE Spec2Model ----
(***************************************************************************)
(* Workflow orchestration core of claims_sk: ClaimsOrchestrator            *)
(* (orchestration.py), ClaimsMagenticManager (managers.py) and             *)
(* SessionStore (session_store.py).                                        *)
(*                                                                         *)
(* Python dicts are functions from string keys to values; an absent key    *)
(* is a key outside the DOMAIN.  Python None is the string "None".         *)
(* Timestamps (datetime.utcnow()) are readings of a monotone clock `now`.  *)
(***************************************************************************)
EXTENDS Integers, Sequences, FiniteSets, TLC

VARIABLES
    enable_human_in_loop,   \* ClaimsOrchestrator.enable_human_in_loop
    max_rounds,             \* ClaimsOrchestrator.max_rounds / manager.max_rounds
    agents,                 \* ClaimsOrchestrator.agents: the configured roles
    specialists,            \* iteration order of SPECIALIST_ROLES in this process
    round_counter,          \* ClaimsMagenticManager._round_counter
    last_ledger_state,      \* ClaimsMagenticManager._last_ledger_state
    sessions,               \* the directories under SessionStore.base_dir
    now,                    \* the clock read by datetime.utcnow()
    io_faulty,              \* whether file I/O of this run can fail
    pc,                     \* position of the running process_claim call
    context,                \* the context dict of the running call
    chat_history,           \* the ChatHistory of the running call
    claim_id,               \* local claim_id of the running call
    spec_idx,               \* index of the next specialist in the round
    result,                 \* what the last call handed to its caller
    invoked,                \* roles whose agent was invoked in this call
    entry,                  \* what the running call was entered with
    task_ledger,            \* the ledger handed to a standalone should_terminate
    op,                     \* last standalone store / manager operation
    saved,                  \* arguments of the last completed save per claim
    other                   \* the suspended call when two calls run concurrently

vars == <<enable_human_in_loop, max_rounds, agents, specialists, round_counter,
          last_ledger_state, sessions, now, io_faulty, pc, context,
          chat_history, claim_id, spec_idx, result, invoked, entry,
          task_ledger, op, saved, other>>

configVars == <<enable_human_in_loop, max_rounds, agents, specialists>>
managerVars == <<round_counter, last_ledger_state>>
callVars == <<pc, context, chat_history, claim_id, spec_idx, result, invoked,
              entry>>

----------------------------------------------------------------------------
(* Bounds of the model *)

MaxClock == 2
MaxMsgs == 2
MaxRoundsCfg == 2
MaxLedger == 3

----------------------------------------------------------------------------
(* Python dict helpers *)

None == "None"

EmptyDict == <<>>

Get(d, k, dflt) == IF k \in DOMAIN d THEN d[k] ELSE dflt

Update(d, e) ==
    [k \in (DOMAIN d) \cup (DOMAIN e) |-> IF k \in DOMAIN e THEN e[k] ELSE d[k]]

Put(d, k, v) == Update(d, k :> v)

SetDefault(d, k, v) == IF k \in DOMAIN d THEN d ELSE Put(d, k, v)

Min(a, b) == IF a < b THEN a ELSE b

Tick(t) == Min(t + 1, MaxClock)

RECURSIVE SelectNotIn(_, _)
SelectNotIn(s, drop) ==
    IF s = <<>> THEN <<>>
    ELSE IF Head(s) \in drop THEN SelectNotIn(Tail(s), drop)
         ELSE <<Head(s)>> \o SelectNotIn(Tail(s), drop)

Range(s) == {s[i] : i \in DOMAIN s}

----------------------------------------------------------------------------
(* Data *)

CaseIds == {"CLM-1", "CLM-2"}

Docs == {"police_report", "repair_estimate"}

AuthorRoles == {"SYSTEM", "USER", "ASSISTANT", "TOOL"}

\* AuthorRole.X.value
RoleValue(r) ==
    CASE r = "SYSTEM" -> "system"
      [] r = "USER" -> "user"
      [] r = "ASSISTANT" -> "assistant"
      [] r = "TOOL" -> "tool"

\* A message content is a sequence of tokens; the empty text is << >>.
ChatMessageContent(role, content, name) ==
    [role |-> role, content |-> content, name |-> name]

\* The values of the keys in JsonKeys are tagged with their Python type:
\* json writes a str or None as it is and calls default=str on anything else.
JsonKeys == {"incident_date"}

JsonNative == {"str", "None"}

PyNone == [py |-> "None", v |-> "None"]

PyStr(v) == [py |-> "str", v |-> v.v]

JsonDump(d) ==
    [k \in DOMAIN d |->
        IF k \in JsonKeys /\ d[k].py \notin JsonNative THEN PyStr(d[k])
        ELSE d[k]]

----------------------------------------------------------------------------
(* SessionStore *)

NoFile == [present |-> FALSE, data |-> <<>>]

File(d) == [present |-> TRUE, data |-> d]

NoDir == [exists |-> FALSE, context |-> NoFile, history |-> NoFile,
          session |-> NoFile]

_serialize_message(message) ==
    [role |-> RoleValue(message.role),
     content |-> IF message.content # <<>> THEN message.content ELSE <<>>,
     name |-> message.name]

\* Mutant: a role_map without the "tool" entry.
_deserialize_message_noTool(message_dict) ==
    LET role_str == message_dict.role
        role == CASE role_str = "user" -> "USER"
                  [] role_str = "assistant" -> "ASSISTANT"
                  [] role_str = "system" -> "SYSTEM"
                  [] OTHER -> "USER"
    IN  ChatMessageContent(role, message_dict.content, message_dict.name)

_deserialize_message(message_dict) ==
    LET role_str == message_dict.role
        role == CASE role_str = "user" -> "USER"
                  [] role_str = "assistant" -> "ASSISTANT"
                  [] role_str = "system" -> "SYSTEM"
                  [] role_str = "tool" -> "TOOL"
                  [] OTHER -> "USER"
    IN  ChatMessageContent(role, message_dict.content, message_dict.name)

HistoryLines(history) ==
    [i \in 1..Len(history) |-> _serialize_message(history[i])]

session_metadata(id, history, ctx, metadata, t) ==
    Update([claim_id |-> id,
            saved_at |-> t,
            message_count |-> Len(history),
            status |-> Get(ctx, "state", "unknown"),
            missing_documents |-> Get(ctx, "missing_documents", <<>>)],
           metadata)

\* The directory after save_session got through `upto` of its three writes
\* (3 = the call completed; fewer = an I/O error stopped it there).
save_session_writes(dir, id, history, ctx, metadata, t, upto) ==
    [exists |-> TRUE,
     context |-> IF upto >= 1 THEN File(JsonDump(ctx)) ELSE dir.context,
     history |-> IF upto >= 2 THEN File(HistoryLines(history)) ELSE dir.history,
     session |-> IF upto >= 3
                 THEN File(JsonDump(session_metadata(id, history, ctx, metadata, t)))
                 ELSE dir.session]

save_session(store, id, history, ctx, metadata, t) ==
    [store EXCEPT ![id] =
        save_session_writes(store[id], id, history, ctx, metadata, t, 3)]

\* Mutant: the directory alone counts as a session.
session_exists_dirOnly(store, id) == store[id].exists

session_exists(store, id) ==
    store[id].exists /\ store[id].session.present

\* Mutant: every directory under base_dir is listed.
list_sessions_allDirs(store) ==
    {id \in DOMAIN store : store[id].exists}

list_sessions(store) ==
    {id \in DOMAIN store : store[id].exists /\ store[id].session.present}

NotFound == [found |-> FALSE, chat_history |-> <<>>, context |-> <<>>,
             metadata |-> <<>>]

load_session(store, id) ==
    LET dir == store[id] IN
    IF ~dir.exists THEN NotFound
    ELSE IF ~dir.session.present THEN NotFound
    ELSE [found |-> TRUE,
          chat_history |->
              IF dir.history.present
              THEN [i \in 1..Len(dir.history.data) |->
                        _deserialize_message(dir.history.data[i])]
              ELSE <<>>,
          context |-> IF dir.context.present THEN dir.context.data ELSE <<>>,
          metadata |-> dir.session.data]

\* Mutant: the archive writes a fresh metadata dict instead of updating the
\* one it read.
archive_session_fresh(store, id, t) ==
    LET dir == store[id] IN
    IF ~dir.exists THEN store
    ELSE IF dir.session.present
         THEN [store EXCEPT ![id].session =
                   File([claim_id |-> id, archived_at |-> t])]
         ELSE store

archive_session(store, id, t) ==
    LET dir == store[id] IN
    IF ~dir.exists THEN store
    ELSE IF dir.session.present
         THEN [store EXCEPT ![id].session =
                   File(JsonDump(Put(dir.session.data, "archived_at", t)))]
         ELSE store

----------------------------------------------------------------------------
(* ClaimsMagenticManager *)

\* The configured stall threshold; the ledgers of the model grow past it.
stall_threshold == MaxLedger - 1

NoLedgerState == [present |-> FALSE, state |-> <<>>]

_set_reason(ctx, reason) == Put(ctx, "termination_reason", reason)

_is_ready_for_handoff(ctx) ==
    /\ Get(ctx, "agent_decision", None) = "approve"
    /\ Get(ctx, "handoff_status", None) = "ready_for_settlement"

_is_manual_denial(ctx) ==
    /\ Get(ctx, "agent_decision", None) = "deny"
    /\ Get(ctx, "denial_package_ready", FALSE) = TRUE

_extract_ledger_state(ledger_entry) ==
    [agent_name |-> ledger_entry.agent_name,
     result_summary |-> ledger_entry.result_summary,
     metadata |-> ledger_entry.metadata]

\* Returns the verdict and the value of _last_ledger_state after the call.
_is_stalled(ledger, last) ==
    IF ledger = <<>> \/ Len(ledger) < stall_threshold
    THEN [ret |-> FALSE, last |-> last]
    ELSE LET recent_agents ==
                 {ledger[i].agent_name :
                      i \in (Len(ledger) - stall_threshold + 1)..Len(ledger)}
             current_state == _extract_ledger_state(ledger[Len(ledger)])
         IN  IF Cardinality(recent_agents) = 1
             THEN [ret |-> TRUE, last |-> last]
             ELSE IF last.present /\ current_state = last.state
                  THEN [ret |-> TRUE, last |-> last]
                  ELSE [ret |-> FALSE,
                        last |-> [present |-> TRUE, state |-> current_state]]

\* Mutant: reset leaves the manager as the previous run left it.
reset_keep ==
    [round_counter |-> round_counter, last_ledger_state |-> last_ledger_state]

\* The manager fields after reset().
reset == [round_counter |-> 0, last_ledger_state |-> NoLedgerState]

\* Mutant: record_round leaves the counter as it is.
record_round_stuck == round_counter

\* _round_counter after record_round().
record_round == round_counter + 1

\* Mutant: the rounds count as exhausted one round late.
rounds_exhausted_late == round_counter > max_rounds

rounds_exhausted == round_counter >= max_rounds

HumanInLoopRequired(ctx) ==
    /\ enable_human_in_loop
    /\ \/ Get(ctx, "missing_documents", <<>>) # <<>>
       \/ Get(ctx, "missing_information", <<>>) # <<>>
    /\ ~Get(ctx, "agent_reviewed", FALSE)

\* Mutant: the SLA breach is tested before the approval and the manual denial.
should_terminate_slaFirst(ctx, ledger) ==
    LET stall == _is_stalled(ledger, last_ledger_state)
        last1 == IF ledger # <<>> THEN stall.last ELSE last_ledger_state
    IN
    IF Get(ctx, "sla_breached", FALSE)
    THEN [ret |-> TRUE,
          context |-> SetDefault(_set_reason(ctx, "denied_sla_breach"),
                                 "agent_decision", "deny"),
          last |-> last_ledger_state]
    ELSE IF _is_ready_for_handoff(ctx)
    THEN [ret |-> TRUE, context |-> _set_reason(ctx, "approved_handoff_ready"),
          last |-> last_ledger_state]
    ELSE IF _is_manual_denial(ctx)
    THEN [ret |-> TRUE, context |-> _set_reason(ctx, "denied_manual"),
          last |-> last_ledger_state]
    ELSE IF ledger # <<>> /\ stall.ret
    THEN [ret |-> TRUE, context |-> _set_reason(ctx, "stalled"), last |-> last1]
    ELSE IF rounds_exhausted
    THEN [ret |-> TRUE, context |-> _set_reason(ctx, "max_rounds_exceeded"),
          last |-> last1]
    ELSE IF HumanInLoopRequired(ctx)
    THEN [ret |-> TRUE, context |-> _set_reason(ctx, "human_in_loop_required"),
          last |-> last1]
    ELSE [ret |-> FALSE, context |-> ctx, last |-> last1]

\* should_terminate mutates the context and the manager; the record holds the
\* return value, the context and _last_ledger_state after the call.
should_terminate(ctx, ledger) ==
    LET stall == _is_stalled(ledger, last_ledger_state)
        last1 == IF ledger # <<>> THEN stall.last ELSE last_ledger_state
    IN
    IF _is_ready_for_handoff(ctx)
    THEN [ret |-> TRUE, context |-> _set_reason(ctx, "approved_handoff_ready"),
          last |-> last_ledger_state]
    ELSE IF _is_manual_denial(ctx)
    THEN [ret |-> TRUE, context |-> _set_reason(ctx, "denied_manual"),
          last |-> last_ledger_state]
    ELSE IF Get(ctx, "sla_breached", FALSE)
    THEN [ret |-> TRUE,
          context |-> SetDefault(_set_reason(ctx, "denied_sla_breach"),
                                 "agent_decision", "deny"),
          last |-> last_ledger_state]
    ELSE IF ledger # <<>> /\ stall.ret
    THEN [ret |-> TRUE, context |-> _set_reason(ctx, "stalled"), last |-> last1]
    ELSE IF rounds_exhausted
    THEN [ret |-> TRUE, context |-> _set_reason(ctx, "max_rounds_exceeded"),
          last |-> last1]
    ELSE IF HumanInLoopRequired(ctx)
    THEN [ret |-> TRUE, context |-> _set_reason(ctx, "human_in_loop_required"),
          last |-> last1]
    ELSE [ret |-> FALSE, context |-> ctx, last |-> last1]

_build_settlement_payload(ctx) ==
    [claim_id |-> Get(ctx, "claim_id", None),
     decision |-> "approve",
     rationale |-> Get(ctx, "decision_rationale", "")]

_build_denial_payload(ctx) ==
    [claim_id |-> Get(ctx, "claim_id", None),
     decision |-> "deny",
     rationale |-> IF Get(ctx, "sla_breached", FALSE)
                   THEN "Claim denied due to SLA breach (timeout)"
                   ELSE Get(ctx, "decision_rationale", ""),
     denial_reason |-> IF Get(ctx, "sla_breached", FALSE)
                       THEN "other"
                       ELSE Get(ctx, "denial_reason", "other")]

\* Mutant: an SLA breach is reported as a timeout.
status_map_slaTimeout(termination_reason) ==
    CASE termination_reason = "approved_handoff_ready" -> "approved"
      [] termination_reason = "denied_manual" -> "denied"
      [] termination_reason = "denied_sla_breach" -> "timeout"
      [] termination_reason = "stalled" -> "stalled"
      [] termination_reason = "max_rounds_exceeded" -> "timeout"
      [] termination_reason = "human_in_loop_required" -> "paused"
      [] OTHER -> "unknown"

status_map(termination_reason) ==
    CASE termination_reason = "approved_handoff_ready" -> "approved"
      [] termination_reason = "denied_manual" -> "denied"
      [] termination_reason = "denied_sla_breach" -> "denied"
      [] termination_reason = "stalled" -> "stalled"
      [] termination_reason = "max_rounds_exceeded" -> "timeout"
      [] termination_reason = "human_in_loop_required" -> "paused"
      [] OTHER -> "unknown"

gather_final_result(ctx, history) ==
    LET termination_reason == Get(ctx, "termination_reason", "unknown")
        status == status_map(termination_reason)
        base == [status |-> status,
                 termination_reason |-> termination_reason,
                 context |-> ctx,
                 chat_history |-> history,
                 rounds_executed |-> round_counter]
    IN  IF status = "approved"
        THEN Put(base, "handoff_payload", _build_settlement_payload(ctx))
        ELSE IF status = "denied"
        THEN Put(base, "handoff_payload", _build_denial_payload(ctx))
        ELSE base

----------------------------------------------------------------------------
(* ClaimsOrchestrator: the pure parts *)

Phase1Roles == <<"intake_coordinator", "policy_specialist", "document_validator">>

SPECIALIST_ROLES ==
    {"policy_specialist", "medical_specialist", "fraud_analyst",
     "claims_history_analyst", "vendor_specialist"}

Phase3Roles == <<"assessment_agent", "claims_officer", "handoff_agent">>

_bootstrap_context(claim_data, existing_context) ==
    LET base == [state |-> "intake",
                 missing_documents |-> <<>>,
                 risk_score |-> 0,
                 fraud_indicators |-> <<>>,
                 assessment_confidence |-> 0,
                 agent_decision |-> None,
                 decision_confidence |-> 0,
                 ack_sent |-> FALSE,
                 info_request_sent |-> FALSE,
                 sla_breached |-> FALSE,
                 agent_reviewed |-> FALSE,
                 handoff_status |-> "pending",
                 denial_package_ready |-> FALSE]
        merged == Update(base, claim_data)
    IN  IF existing_context # <<>> THEN Update(merged, existing_context)
        ELSE merged

\* str(debug_log_dir / f"{claim_id}_trace.txt")
DebugLogPath(id) == <<id, "_trace.txt">>

\* The system note process_claim adds when documents are known to be missing.
SystemNote(missing_docs) ==
    ChatMessageContent("SYSTEM", <<"missing documents">> \o missing_docs, None)

AgentReply(role) == ChatMessageContent("ASSISTANT", <<"reply", role>>, role)

\* Mutant: the pause test never fires.
_should_pause_never(ctx) == FALSE

_should_pause(ctx) ==
    /\ enable_human_in_loop
    /\ Len(Get(ctx, "missing_documents", <<>>)) > 0

_create_paused_result(ctx, history) ==
    [status |-> "paused",
     termination_reason |-> "missing_documents",
     context |-> ctx,
     chat_history |-> history,
     missing_documents |-> Get(ctx, "missing_documents", <<>>),
     resume_instructions |-> <<"To resume claim", Get(ctx, "claim_id", None)>>]

\* Mutant: the snapshot keeps the status taken from the context state.
_save_session_snapshot_noStatus(store, id, history, ctx, status, t, upto) ==
    [store EXCEPT ![id] =
        save_session_writes(store[id], id, history, ctx, <<>>, t, upto)]

\* The store after _save_session_snapshot got through `upto` writes.
_save_session_snapshot(store, id, history, ctx, status, t, upto) ==
    [store EXCEPT ![id] =
        save_session_writes(store[id], id, history, ctx,
                            [status |-> status, paused_at |-> t], t, upto)]

\* The store after the save_session of _archive_completed_session.
ArchiveSave(store, id, history, ctx, res, t, upto) ==
    [store EXCEPT ![id] =
        save_session_writes(store[id], id, history, ctx,
                            [status |-> "completed",
                             final_status |-> res.status,
                             termination_reason |-> res.termination_reason,
                             completed_at |-> t], t, upto)]

\* Mutant: the placeholder names the missing documents only.
PendingPayload_docsOnly(ctx) ==
    [decision |-> "PENDING",
     notes |-> Get(ctx, "missing_documents", <<>>)]

\* The PENDING placeholder of a skipped Phase 2
PendingPayload(ctx) ==
    [decision |-> "PENDING",
     notes |-> Get(ctx, "missing_information", <<>>)
                   \o Get(ctx, "missing_documents", <<>>)]

Truthy(v) == v # None /\ v # ""

RECURSIVE TypesOf(_)
TypesOf(items) ==
    IF items = <<>> THEN {}
    ELSE (IF Truthy(Get(Head(items), "type", None))
          THEN {Head(items).type} ELSE {}) \cup TypesOf(Tail(items))

RECURSIVE NoteMessages(_)
NoteMessages(notes) ==
    IF notes = <<>> THEN <<>>
    ELSE <<ChatMessageContent("USER",
               <<"additional details", Get(Head(notes), "type", None),
                 Get(Head(notes), "content", None)>>, None)>>
         \o NoteMessages(Tail(notes))

\* The evidence types of the model in the order sorted() gives them.
EvidenceTypes == <<"police_report", "repair_estimate", "witness_statement">>

InSet(S, x) == x \in S

\* Mutant: the message names no type.
SortedSeq_none(S) == <<>>

SortedSeq(S) ==
    LET RECURSIVE pick(_)
        pick(i) == IF i > Len(EvidenceTypes) THEN <<>>
                   ELSE (IF InSet(S, EvidenceTypes[i])
                         THEN <<EvidenceTypes[i]>> ELSE <<>>) \o pick(i + 1)
    IN  pick(1)

\* Mutant: any supplied evidence clears the whole list.
MergeEvidence_clearAll(ctx, history, additional_documents) ==
    LET new_documents == Get(additional_documents, "documents", <<>>)
        notes == Get(additional_documents, "notes", <<>>)
        provided_types == TypesOf(new_documents) \cup TypesOf(notes)
    IN  IF additional_documents = <<>> \/ provided_types = {}
        THEN [context |-> ctx, chat_history |-> history, provided |-> {}]
        ELSE [context |-> Put(ctx, "missing_documents", <<>>),
              chat_history |-> history, provided |-> provided_types]

\* continue_claim, lines 624-665: the context and transcript after the new
\* evidence was merged, and the provided types.
MergeEvidence(ctx, history, additional_documents) ==
    LET new_documents == Get(additional_documents, "documents", <<>>)
        notes == Get(additional_documents, "notes", <<>>)
        ctx1 == IF new_documents # <<>>
                THEN Put(ctx, "documents",
                         Get(ctx, "documents", <<>>) \o new_documents)
                ELSE ctx
        ctx2 == IF notes # <<>>
                THEN Put(ctx1, "customer_notes",
                         Get(ctx1, "customer_notes", <<>>) \o notes)
                ELSE ctx1
        hist2 == history \o NoteMessages(notes)
        provided_types == TypesOf(new_documents) \cup TypesOf(notes)
    IN  IF additional_documents = <<>>
        THEN [context |-> ctx, chat_history |-> history, provided |-> {}]
        ELSE IF provided_types = {}
        THEN [context |-> ctx2, chat_history |-> hist2, provided |-> {}]
        ELSE [context |->
                  Put(ctx2, "missing_documents",
                      SelectNotIn(Get(ctx2, "missing_documents", <<>>),
                                  provided_types)),
              chat_history |->
                  Append(hist2,
                      ChatMessageContent("SYSTEM",
                          <<"additional evidence">> \o SortedSeq(provided_types),
                          None)),
              provided |-> provided_types]

\* The claim_data continue_claim hands to process_claim
ResumeClaimData(id, ctx) ==
    [claim_id |-> id,
     policy_number |-> Get(ctx, "policy_number", None),
     claimant_name |-> Get(ctx, "claimant_name", None),
     incident_date |-> Get(ctx, "incident_date", PyNone),
     documents |-> Get(ctx, "documents", <<>>)]

\* The context and transcript of a run that paused after Phase 1 with every
\* Phase 1 agent answering.
PausedContext(id, docs) ==
    Update(_bootstrap_context([claim_id |-> id, missing_documents |-> docs], <<>>),
           [debug_log_path |-> DebugLogPath(id), ack_sent |-> TRUE,
            state |-> "validation_complete"])

PausedTranscript(docs) ==
    <<SystemNote(docs), AgentReply("intake_coordinator"),
      AgentReply("policy_specialist"), AgentReply("document_validator")>>

----------------------------------------------------------------------------
(* Values shared by the initial states *)

NoSaved == [id \in CaseIds |-> [valid |-> FALSE, chat_history |-> <<>>,
                                context |-> <<>>]]

NoOp == [name |-> "none"]

NoResult == [kind |-> "none"]

NoEntry == [kind |-> "none"]

\* No second call runs on the orchestrator.
NoTask == [pc |-> "none"]

\* The documents the paused claims of the initial states wait for.
OldMissing == <<"repair_estimate", "medical_report", "police_report">>

\* The session directory of a claim that paused after Phase 1 for missing
\* documents.
OldSession(id) ==
    save_session_writes(NoDir, id,
        PausedTranscript(OldMissing),
        PausedContext(id, OldMissing),
        [status |-> "paused_after_phase1", paused_at |-> 0], 0, 3)

\* A directory whose save stopped before session.json was written.
PartialDir(id) ==
    save_session_writes(NoDir, id, <<>>, [claim_id |-> id], <<>>, 0, 2)

DirInits(id) == {NoDir, PartialDir(id), OldSession(id)}

----------------------------------------------------------------------------
(* SessionStore used on its own: save, load and archive of one claim *)

StoreMessages ==
    {ChatMessageContent("SYSTEM", <<"note">>, None),
     ChatMessageContent("USER", <<>>, None),
     ChatMessageContent("ASSISTANT", <<"reply">>, "fraud_analyst"),
     ChatMessageContent("TOOL", <<"lookup">>, None)}

StoreTranscripts ==
    UNION {[1..n -> StoreMessages] : n \in 0..MaxMsgs}

\* The (context, metadata) pairs handed to a standalone save_session: a
\* context with a state marker and a non-JSON value saved without caller
\* metadata, and a context without state saved with a caller status.
StoreSaveArgs(id, t) ==
    {[context |-> [claim_id |-> id, state |-> "validation_complete",
                   missing_documents |-> <<"police_report">>,
                   incident_date |-> [py |-> "date", v |-> "2024-05-01"]],
      metadata |-> <<>>],
     [context |-> [claim_id |-> id, missing_documents |-> <<>>,
                   incident_date |-> [py |-> "str", v |-> "2024-05-01"]],
      metadata |-> [status |-> "paused_after_phase1", paused_at |-> t]]}

InitStore ==
    /\ enable_human_in_loop = TRUE
    /\ max_rounds = MaxRoundsCfg
    /\ agents = {}
    /\ specialists = <<>>
    /\ round_counter = 0
    /\ last_ledger_state = NoLedgerState
    /\ claim_id \in CaseIds
    /\ \E d \in DirInits(claim_id) :
          sessions = [id \in CaseIds |->
                         IF id = claim_id THEN d ELSE OldSession(id)]
    /\ now = 0
    /\ io_faulty = FALSE
    /\ other = NoTask
    /\ pc = "idle"
    /\ context = <<>>
    /\ chat_history = <<>>
    /\ spec_idx = 0
    /\ result = NoResult
    /\ invoked = <<>>
    /\ entry = NoEntry
    /\ task_ledger = <<>>
    /\ op = NoOp
    /\ saved = NoSaved

StoreSave ==
    \E t \in StoreTranscripts, a \in StoreSaveArgs(claim_id, now) :
        /\ sessions' = save_session(sessions, claim_id, t, a.context,
                                    a.metadata, now)
        /\ now' = Tick(now)
        /\ saved' = [saved EXCEPT ![claim_id] =
                        [valid |-> TRUE, chat_history |-> t,
                         context |-> a.context]]
        /\ op' = [name |-> "save"]
        /\ UNCHANGED <<configVars, managerVars, callVars, io_faulty, other,
                       task_ledger>>

StoreLoad ==
    /\ op' = [name |-> "load", ret |-> load_session(sessions, claim_id)]
    /\ UNCHANGED <<configVars, managerVars, callVars, io_faulty, other, task_ledger,
                   sessions, now, saved>>

StoreArchive ==
    /\ sessions' = archive_session(sessions, claim_id, now)
    /\ now' = Tick(now)
    /\ op' = [name |-> "archive", before |-> sessions[claim_id]]
    /\ UNCHANGED <<configVars, managerVars, callVars, io_faulty, other, task_ledger,
                   saved>>

NextStore == StoreSave \/ StoreLoad \/ StoreArchive

SpecStore == InitStore /\ [][NextStore]_vars

----------------------------------------------------------------------------
(* Properties of the SessionStore *)

SameRoleAndContent(loaded, t) ==
    /\ Len(loaded) = Len(t)
    /\ \A i \in 1..Len(t) :
          /\ loaded[i].role = t[i].role
          /\ loaded[i].content = t[i].content

\* C8: save_session(id, t, c, m) followed by load_session(id) returns the
\* context c after JSON coercion and a transcript with the same messages
\* (role and content) in the same order, whatever the directory held before.
C8_SaveLoadRoundTrip ==
    (op.name = "load" /\ saved[claim_id].valid) =>
        /\ op.ret.found
        /\ op.ret.context = JsonDump(saved[claim_id].context)
        /\ SameRoleAndContent(op.ret.chat_history, saved[claim_id].chat_history)

C8_Witness ==
    /\ op.name = "load"
    /\ saved[claim_id].valid
    /\ op.ret.found
    /\ Len(op.ret.chat_history) = 2
    /\ op.ret.chat_history[1].role = "TOOL"
    /\ op.ret.chat_history[2].role = "SYSTEM"
    /\ saved[claim_id].context.incident_date.py = "date"
    /\ op.ret.context.incident_date.py = "str"

\* C9: archive_session on an existing session leaves session.json with an
\* archived_at that is the earlier one or later, every other metadata field
\* as it was, and context.json and history.jsonl untouched.
C9_ArchiveIdempotent ==
    (op.name = "archive" /\ op.before.exists /\ op.before.session.present) =>
        LET old == op.before.session.data
            dir == sessions[claim_id]
            new == dir.session.data
        IN  /\ dir.exists /\ dir.session.present
            /\ DOMAIN new = (DOMAIN old) \cup {"archived_at"}
            /\ \A k \in (DOMAIN old) \ {"archived_at"} : new[k] = old[k]
            /\ "archived_at" \in DOMAIN old => new.archived_at >= old.archived_at
            /\ dir.context = op.before.context
            /\ dir.history = op.before.history

C9_Witness ==
    /\ op.name = "archive"
    /\ op.before.exists
    /\ op.before.session.present
    /\ "archived_at" \in DOMAIN op.before.session.data
    /\ sessions[claim_id].session.data.archived_at
           > op.before.session.data.archived_at
    /\ sessions[claim_id].history.data # <<>>

----------------------------------------------------------------------------
(* ClaimsMagenticManager used on its own: should_terminate on any context *)

DecisionInputs ==
    {<<>>} \cup {[agent_decision |-> d] : d \in {None, "approve", "deny"}}

MissingInputs ==
    {<<>>,
     [missing_documents |-> <<"police_report">>],
     [missing_information |-> <<"incident_description">>],
     [missing_documents |-> <<"police_report">>, agent_reviewed |-> TRUE]}

PolicyContexts ==
    {Update(Update([claim_id |-> "CLM-1", handoff_status |-> h,
                    denial_package_ready |-> dr, sla_breached |-> sla], d), m) :
        h \in {"pending", "ready_for_settlement"}, dr \in BOOLEAN,
        sla \in BOOLEAN, d \in DecisionInputs, m \in MissingInputs}

LedgerEntries ==
    {[agent_name |-> a, result_summary |-> "no change", metadata |-> <<>>,
      timestamp |-> 0] : a \in {"fraud_analyst", "policy_specialist"}}

Ledgers == UNION {[1..n -> LedgerEntries] : n \in 0..MaxLedger}

LedgerStates ==
    {NoLedgerState} \cup
    {[present |-> TRUE, state |-> _extract_ledger_state(e)] : e \in LedgerEntries}

InitPolicy ==
    /\ enable_human_in_loop \in BOOLEAN
    /\ max_rounds = MaxRoundsCfg
    /\ agents = {}
    /\ specialists = <<>>
    /\ round_counter \in 0..MaxRoundsCfg
    /\ last_ledger_state \in LedgerStates
    /\ sessions = [id \in CaseIds |-> NoDir]
    /\ now = 0
    /\ io_faulty = FALSE
    /\ other = NoTask
    /\ pc = "idle"
    /\ context \in PolicyContexts
    /\ chat_history = <<>>
    /\ claim_id = "CLM-1"
    /\ spec_idx = 0
    /\ result = NoResult
    /\ invoked = <<>>
    /\ entry = NoEntry
    /\ task_ledger \in Ledgers
    /\ op = NoOp
    /\ saved = NoSaved

\* should_terminate(context) or should_terminate(context, task_ledger)
PolicyShouldTerminate ==
    \E with_ledger \in BOOLEAN :
        LET ledger == IF with_ledger THEN task_ledger ELSE <<>>
            r == should_terminate(context, ledger)
        IN  /\ context' = r.context
            /\ last_ledger_state' = r.last
            /\ op' = [name |-> "should_terminate", context |-> context,
                      ledger |-> ledger, last |-> last_ledger_state,
                      ret |-> r.ret]
            /\ UNCHANGED <<configVars, round_counter, sessions, now, io_faulty, other,
                           pc, chat_history, claim_id, spec_idx, result,
                           invoked, entry, task_ledger, saved>>

NextPolicy == PolicyShouldTerminate

SpecPolicy == InitPolicy /\ [][NextPolicy]_vars

----------------------------------------------------------------------------
(* Properties of should_terminate *)

ReasonOrder ==
    <<"approved_handoff_ready", "denied_manual", "denied_sla_breach",
      "stalled", "max_rounds_exceeded", "human_in_loop_required">>

\* The six termination conditions of a context c, a supplied ledger, the
\* remembered ledger state and the round counter, in priority order.
Conditions(c, ledger, last) ==
    <<Get(c, "agent_decision", None) = "approve"
          /\ Get(c, "handoff_status", None) = "ready_for_settlement",
      Get(c, "agent_decision", None) = "deny"
          /\ Get(c, "denial_package_ready", FALSE),
      Get(c, "sla_breached", FALSE),
      /\ Len(ledger) >= stall_threshold
      /\ Len(ledger) > 0
      /\ \/ \A i, j \in (Len(ledger) - stall_threshold + 1)..Len(ledger) :
                ledger[i].agent_name = ledger[j].agent_name
         \/ /\ last.present
            /\ last.state.agent_name = ledger[Len(ledger)].agent_name
            /\ last.state.result_summary = ledger[Len(ledger)].result_summary
            /\ last.state.metadata = ledger[Len(ledger)].metadata,
      round_counter >= max_rounds,
      /\ enable_human_in_loop
      /\ \/ Get(c, "missing_documents", <<>>) # <<>>
         \/ Get(c, "missing_information", <<>>) # <<>>
      /\ ~Get(c, "agent_reviewed", FALSE)>>

Satisfied(conds) == {i \in 1..6 : conds[i]}

First(S) == CHOOSE i \in S : \A j \in S : i <= j

----------------------------------------------------------------------------
(* ClaimsOrchestrator: one call of process_claim or continue_claim *)

Returned(value) == [kind |-> "returned", value |-> value]

Raised(exc) == [kind |-> "raised", exc |-> exc]

NoFailure == [kind |-> "none"]

\* Agents of the model that may finish without yielding a message.
SilentRoles == {"intake_coordinator", "fraud_analyst", "handoff_agent"}

\* What an invocation of `role` can do: the role is not registered, the
\* agent yields a message, yields none, or raises.
Outcomes(role) ==
    IF role \notin agents THEN {"absent"}
    ELSE {"reply", "raise"} \cup (IF role \in SilentRoles THEN {"none"} ELSE {})

\* How many of its three writes a save_session gets through.
SaveOutcomes == IF io_faulty THEN 0..3 ELSE {3}

\* Whether a single file operation succeeds.
IoOutcomes == IF io_faulty THEN BOOLEAN ELSE {TRUE}

Registries ==
    {{"intake_coordinator", "policy_specialist", "document_validator",
      "fraud_analyst", "assessment_agent", "claims_officer", "handoff_agent"},
     {"intake_coordinator", "document_validator", "claims_officer",
      "handoff_agent"}}

\* The orders in which iterating the set SPECIALIST_ROLES can yield the
\* registered specialists.
Orderings(S) == {s \in [1..Cardinality(S) -> S] : Range(s) = S}

ClaimBase == [claim_id |-> "CLM-1"]

ClaimInputs ==
    {[original_content |-> <<"text">>],
     ClaimBase,
     Update(ClaimBase, [original_content |-> <<"text">>]),
     Update(ClaimBase, [missing_documents |-> <<"police_report">>]),
     Update(ClaimBase, [missing_documents |-> <<"repair_estimate", "police_report">>,
                        agent_reviewed |-> TRUE]),
     Update(ClaimBase, [missing_information |-> <<"incident_time">>]),
     Update(ClaimBase, [missing_information |-> <<"incident_time">>,
                        agent_reviewed |-> TRUE]),
     Update(ClaimBase, [agent_decision |-> "approve"]),
     Update(ClaimBase, [agent_decision |-> "approve",
                        handoff_status |-> "ready_for_settlement"]),
     Update(ClaimBase, [agent_decision |-> "deny"]),
     Update(ClaimBase, [agent_decision |-> "deny", denial_package_ready |-> TRUE]),
     Update(ClaimBase, [sla_breached |-> TRUE])}

EvidenceInputs ==
    {<<>>,
     [documents |-> <<[type |-> "police_report"]>>],
     [documents |-> <<[filename |-> "photo.jpg"]>>,
      notes |-> << [type |-> "repair_estimate", content |-> "quote"] >>],
     [documents |-> <<[type |-> "repair_estimate"], [type |-> "police_report"]>>],
     [notes |-> <<[type |-> "witness_statement", content |-> "statement"] >>]}

InitWith(faulty) ==
    /\ enable_human_in_loop \in BOOLEAN
    /\ max_rounds \in 0..MaxRoundsCfg
    /\ agents \in Registries
    /\ specialists \in Orderings(SPECIALIST_ROLES \cap agents)
    /\ round_counter \in {0, MaxRoundsCfg}
    /\ last_ledger_state = NoLedgerState
    /\ \E d \in DirInits("CLM-1") :
          sessions = [id \in CaseIds |->
                         IF id = "CLM-1" THEN d ELSE OldSession(id)]
    /\ now = 1
    /\ io_faulty = faulty
    /\ other = NoTask
    /\ pc = "idle"
    /\ context = <<>>
    /\ chat_history = <<>>
    /\ claim_id = None
    /\ spec_idx = 0
    /\ result = NoResult
    /\ invoked = <<>>
    /\ entry = NoEntry
    /\ task_ledger = <<>>
    /\ op = NoOp
    /\ saved = NoSaved

Init == InitWith(FALSE)

InitFaults == InitWith(TRUE)

\* Variables no step of a call changes.
frameVars == <<configVars, io_faulty, task_ledger, op, saved, other>>

\* process_claim, lines 189-204: the except block. `store` and `t` are the
\* session store and the clock as the failing step left them.
ExceptBlock(ctx, hist, inv, failure, message, store, t) ==
    \E upto \in SaveOutcomes :
        /\ sessions' = _save_session_snapshot(store, claim_id, hist, ctx,
                                              "error", t, upto)
        /\ now' = Tick(t)
        /\ result' = IF upto = 3
                     THEN Returned([status |-> "error",
                                    termination_reason |-> "exception",
                                    error |-> message,
                                    context |-> ctx,
                                    chat_history |-> hist])
                     ELSE Raised("OSError")
        /\ pc' = "done"
        /\ context' = ctx
        /\ chat_history' = hist
        /\ invoked' = inv
        /\ entry' = [entry EXCEPT !.failure = failure]
        /\ UNCHANGED <<frameVars, managerVars, claim_id, spec_idx>>

\* process_claim, lines 116-135, and the synchronous head of Phase 1, lines
\* 222-230, up to the first agent invocation.
ProcessEntry(claim_data, hist, existing_context, e) ==
    LET ctx0 == _bootstrap_context(claim_data, existing_context) IN
    /\ round_counter' = reset.round_counter
    /\ last_ledger_state' = reset.last_ledger_state
    /\ entry' = e
    /\ invoked' = <<>>
    /\ spec_idx' = 0
    /\ UNCHANGED <<frameVars, sessions, now>>
    /\ IF "claim_id" \notin DOMAIN ctx0
       THEN /\ result' = Raised("KeyError")
            /\ pc' = "done"
            /\ context' = ctx0
            /\ chat_history' = hist
            /\ UNCHANGED claim_id
       ELSE \E ok \in IoOutcomes :
            IF ~ok
            THEN /\ result' = Raised("OSError")
                 /\ pc' = "done"
                 /\ context' = ctx0
                 /\ chat_history' = hist
                 /\ UNCHANGED claim_id
            ELSE LET ctx1 == Put(ctx0, "debug_log_path",
                                 DebugLogPath(ctx0.claim_id))
                     missing_docs ==
                         SelectSeq(Get(ctx1, "missing_documents", <<>>), Truthy)
                     hist1 == IF missing_docs # <<>>
                              THEN Append(hist, SystemNote(missing_docs))
                              ELSE hist
                     hist2 == IF "original_content" \in DOMAIN ctx1
                              THEN Append(hist1,
                                       ChatMessageContent("USER",
                                           <<"New claim submission">>
                                               \o ctx1.original_content, None))
                              ELSE hist1
                 IN  /\ context' = ctx1
                     /\ chat_history' = hist2
                     /\ claim_id' = ctx1.claim_id
                     /\ result' = result
                     /\ pc' = "p1_intake"

\* Two calls that run concurrently are for different cases: a call that
\* starts while another one is suspended takes the case the other one does
\* not work on.
FreeCases ==
    IF other.pc \in {"none", "idle"} THEN CaseIds
    ELSE CaseIds \ {other.claim_id}

\* The claim_data of concurrent calls.
ConcurrentInputs(id) ==
    {[claim_id |-> id],
     [claim_id |-> id, sla_breached |-> TRUE],
     [claim_id |-> id, missing_information |-> <<"incident_time">>,
      agent_reviewed |-> TRUE]}

CallInputs ==
    IF other.pc = "none" THEN ClaimInputs
    ELSE UNION {ConcurrentInputs(id) : id \in FreeCases}

CallEvidence ==
    IF other.pc = "none" THEN EvidenceInputs
    ELSE {[documents |-> <<[type |-> "repair_estimate"],
                           [type |-> "police_report"]>>]}

ProcessClaim ==
    \E claim_data \in CallInputs :
        /\ pc = "idle"
        /\ ProcessEntry(claim_data, <<>>, <<>>,
               [kind |-> "process", id |-> Get(claim_data, "claim_id", None),
                sessions |-> sessions, evidence |-> <<>>,
                saved_missing |-> <<>>, rounds_before |-> round_counter,
                failure |-> NoFailure])

ContinueClaim ==
    \E id \in FreeCases, additional_documents \in CallEvidence :
        LET e == [kind |-> "resume", id |-> id, sessions |-> sessions,
                  evidence |-> additional_documents,
                  saved_missing |-> <<>>, rounds_before |-> round_counter,
                  failure |-> NoFailure]
            session_data == load_session(sessions, id)
            merged == MergeEvidence(session_data.context,
                                    session_data.chat_history,
                                    additional_documents)
        IN
        /\ pc = "idle"
        /\ IF ~session_exists(sessions, id)
           THEN /\ result' = Raised("ValueError")
                /\ pc' = "done"
                /\ entry' = e
                /\ UNCHANGED <<frameVars, managerVars, sessions, now, context,
                               chat_history, claim_id, spec_idx, invoked>>
           ELSE IF ~session_data.found
           THEN /\ result' = Raised("TypeError")
                /\ pc' = "done"
                /\ entry' = e
                /\ UNCHANGED <<frameVars, managerVars, sessions, now, context,
                               chat_history, claim_id, spec_idx, invoked>>
           ELSE ProcessEntry(ResumeClaimData(id, merged.context),
                             merged.chat_history, merged.context,
                             [e EXCEPT !.saved_missing =
                                 Get(session_data.context, "missing_documents",
                                     <<>>)])

\* _invoke_agent, lines 395-407, and the statements of the phase that follow
\* the invocation up to the next one.
Invoke(phase, role, ctx_reply, ctx_silent, nextpc) ==
    \E o \in Outcomes(role) :
        IF o = "raise"
        THEN ExceptBlock(context, chat_history,
                         Append(invoked, [phase |-> phase, role |-> role]),
                         [kind |-> "actor", phase |-> phase, role |-> role,
                          context |-> context, chat_history |-> chat_history,
                          invoked |-> Len(invoked) + 1],
                         "agent invocation failed", sessions, now)
        ELSE /\ pc' = nextpc
             /\ context' = IF o = "reply" THEN ctx_reply ELSE ctx_silent
             /\ chat_history' = IF o = "reply"
                                THEN Append(chat_history, AgentReply(role))
                                ELSE chat_history
             /\ invoked' = IF o = "absent" THEN invoked
                           ELSE Append(invoked, [phase |-> phase, role |-> role])
             /\ UNCHANGED <<frameVars, managerVars, sessions, now, claim_id,
                            result, entry, spec_idx>>

P1Intake ==
    /\ pc = "p1_intake"
    /\ Invoke(1, "intake_coordinator", Put(context, "ack_sent", TRUE), context,
              "p1_policy")

P1Policy ==
    /\ pc = "p1_policy"
    /\ Invoke(1, "policy_specialist", context, context, "p1_docs")

P1Docs ==
    /\ pc = "p1_docs"
    /\ Invoke(1, "document_validator",
              Put(context, "state", "validation_complete"),
              Put(context, "state", "validation_complete"), "check1")

\* process_claim, lines 149-156 and 163-170: save the snapshot and return the
\* paused result; a failing save lands in the except block.
PauseExit(status) ==
    \E upto \in SaveOutcomes :
        IF upto = 3
        THEN /\ sessions' = _save_session_snapshot(sessions, claim_id,
                                chat_history, context, status, now, 3)
             /\ now' = Tick(now)
             /\ result' = Returned(_create_paused_result(context, chat_history))
             /\ pc' = "done"
             /\ UNCHANGED <<frameVars, managerVars, context, chat_history,
                            claim_id, spec_idx, invoked, entry>>
        ELSE ExceptBlock(context, chat_history, invoked,
                         [kind |-> "io", phase |-> 0, role |-> None,
                          context |-> context, chat_history |-> chat_history,
                          invoked |-> Len(invoked)],
                         "save failed",
                         _save_session_snapshot(sessions, claim_id, chat_history,
                                                context, status, now, upto),
                         Tick(now))

\* process_claim, lines 158-159 and 172-173: should_terminate decides whether
\* the next phase runs.
Decide(runpc, skippc) ==
    LET st == should_terminate(context, <<>>) IN
    /\ context' = st.context
    /\ last_ledger_state' = st.last
    /\ pc' = IF st.ret THEN skippc ELSE runpc
    /\ UNCHANGED <<frameVars, round_counter, sessions, now, chat_history,
                   claim_id, spec_idx, result, invoked, entry>>

Check1 ==
    /\ pc = "check1"
    /\ IF _should_pause(context) THEN PauseExit("paused_after_phase1")
       ELSE Decide("p2_enter", "check2")

\* _phase2_magentic_gathering, lines 258-295
P2Enter ==
    /\ pc = "p2_enter"
    /\ IF \/ Get(context, "missing_documents", <<>>) # <<>>
          \/ Get(context, "missing_information", <<>>) # <<>>
       THEN /\ context' = Put(context, "handoff_payload", PendingPayload(context))
            /\ pc' = "check2"
       ELSE /\ context' = Put(context, "state", "adaptive_gathering")
            /\ pc' = IF specialists = <<>> THEN "check2" ELSE "p2_loop"
    /\ UNCHANGED <<frameVars, managerVars, sessions, now, chat_history,
                   claim_id, spec_idx, result, invoked, entry>>

\* _phase2_magentic_gathering, lines 297-301 and 334
P2Loop ==
    LET st == should_terminate(context, <<>>) IN
    /\ pc = "p2_loop"
    /\ last_ledger_state' = st.last
    /\ IF st.ret
       THEN /\ context' = Put(st.context, "state", "data_gathering_complete")
            /\ pc' = "check2"
            /\ spec_idx' = spec_idx
       ELSE /\ context' = st.context
            /\ pc' = "p2_spec"
            /\ spec_idx' = 1
    /\ UNCHANGED <<frameVars, round_counter, sessions, now, chat_history,
                   claim_id, result, invoked, entry>>

\* _phase2_magentic_gathering, lines 310-322: one specialist of the round
P2Spec ==
    /\ pc = "p2_spec"
    /\ \E o \in Outcomes(specialists[spec_idx]) :
        LET role == specialists[spec_idx] IN
        IF o = "raise"
        THEN ExceptBlock(context, chat_history,
                         Append(invoked, [phase |-> 2, role |-> role]),
                         [kind |-> "actor", phase |-> 2, role |-> role,
                          context |-> context, chat_history |-> chat_history,
                          invoked |-> Len(invoked) + 1],
                         "agent invocation failed", sessions, now)
        ELSE /\ chat_history' = IF o = "reply"
                                THEN Append(chat_history, AgentReply(role))
                                ELSE chat_history
             /\ invoked' = Append(invoked, [phase |-> 2, role |-> role])
             /\ IF spec_idx < Len(specialists)
                THEN /\ spec_idx' = spec_idx + 1
                     /\ pc' = "p2_spec"
                ELSE /\ spec_idx' = 0
                     /\ pc' = "p2_round_end"
             /\ UNCHANGED <<frameVars, managerVars, sessions, now, context,
                            claim_id, result, entry>>

\* _phase2_magentic_gathering, lines 324-334: record_round and the
\* human-in-loop break
P2RoundEnd ==
    /\ pc = "p2_round_end"
    /\ round_counter' = record_round
    /\ IF enable_human_in_loop /\ Get(context, "missing_documents", <<>>) # <<>>
       THEN /\ context' = Put(context, "state", "data_gathering_complete")
            /\ pc' = "check2"
       ELSE /\ context' = context
            /\ pc' = "p2_loop"
    /\ UNCHANGED <<frameVars, last_ledger_state, sessions, now, chat_history,
                   claim_id, spec_idx, result, invoked, entry>>

Check2 ==
    /\ pc = "check2"
    /\ IF _should_pause(context) THEN PauseExit("paused_after_phase2")
       ELSE Decide("p3_assess", "finish")

P3Assess ==
    /\ pc = "p3_assess"
    /\ Invoke(3, "assessment_agent", context, context, "p3_officer")

\* Mutant: the second step of Phase 3 invokes the handoff_agent.
P3Officer_handoff ==
    /\ pc = "p3_officer"
    /\ Invoke(3, "handoff_agent", context, context, "p3_handoff")

P3Officer ==
    /\ pc = "p3_officer"
    /\ Invoke(3, "claims_officer", context, context, "p3_handoff")

P3Handoff ==
    /\ pc = "p3_handoff"
    /\ Invoke(3, "handoff_agent",
              Put(context, "handoff_status", "ready_for_settlement"), context,
              "finish")

\* process_claim, lines 175-187, with _archive_completed_session
Finish ==
    LET res == gather_final_result(context, chat_history) IN
    /\ pc = "finish"
    /\ \E upto \in SaveOutcomes, archived \in IoOutcomes :
        IF upto = 3 /\ archived
        THEN /\ sessions' = archive_session(
                                ArchiveSave(sessions, claim_id, chat_history,
                                            context, res, now, 3),
                                claim_id, Tick(now))
             /\ now' = Tick(Tick(now))
             /\ result' = Returned(res)
             /\ pc' = "done"
             /\ UNCHANGED <<frameVars, managerVars, context, chat_history,
                            claim_id, spec_idx, invoked, entry>>
        ELSE ExceptBlock(context, chat_history, invoked,
                         [kind |-> "io", phase |-> 0, role |-> None,
                          context |-> context, chat_history |-> chat_history,
                          invoked |-> Len(invoked)],
                         "archive failed",
                         ArchiveSave(sessions, claim_id, chat_history, context,
                                     res, now, upto),
                         Tick(now))

Next ==
    \/ ProcessClaim
    \/ ContinueClaim
    \/ P1Intake
    \/ P1Policy
    \/ P1Docs
    \/ Check1
    \/ P2Enter
    \/ P2Loop
    \/ P2Spec
    \/ P2RoundEnd
    \/ Check2
    \/ P3Assess
    \/ P3Officer
    \/ P3Handoff
    \/ Finish

\* The orchestrator on a file system that never fails.
Spec == Init /\ [][Next]_vars

\* The locals of a call that has not started.
IdleTask ==
    [pc |-> "idle", context |-> <<>>, chat_history |-> <<>>, claim_id |-> None,
     spec_idx |-> 0, result |-> NoResult, invoked |-> <<>>, entry |-> NoEntry]

\* The role whose agent the running call is about to await, if any.
AwaitedRole ==
    CASE pc = "p1_intake" -> "intake_coordinator"
      [] pc = "p1_policy" -> "policy_specialist"
      [] pc = "p1_docs" -> "document_validator"
      [] pc = "p2_spec" -> specialists[spec_idx]
      [] pc = "p3_assess" -> "assessment_agent"
      [] pc = "p3_officer" -> "claims_officer"
      [] pc = "p3_handoff" -> "handoff_agent"
      [] OTHER -> None

\* The event loop runs the other call: the running call is suspended in an
\* agent invocation or has returned, and the other call can go on.
Switch ==
    /\ other.pc \notin {"none", "done"}
    /\ pc = "done" \/ AwaitedRole \in agents
    /\ other' = [pc |-> pc, context |-> context, chat_history |-> chat_history,
                 claim_id |-> claim_id, spec_idx |-> spec_idx,
                 result |-> result, invoked |-> invoked, entry |-> entry]
    /\ pc' = other.pc
    /\ context' = other.context
    /\ chat_history' = other.chat_history
    /\ claim_id' = other.claim_id
    /\ spec_idx' = other.spec_idx
    /\ result' = other.result
    /\ invoked' = other.invoked
    /\ entry' = other.entry
    /\ UNCHANGED <<configVars, managerVars, sessions, now, io_faulty,
                   task_ledger, op, saved>>

\* Two calls on one orchestrator and one event loop.
InitConcurrent ==
    /\ enable_human_in_loop = TRUE
    /\ max_rounds \in 1..MaxRoundsCfg
    /\ agents = {"intake_coordinator", "policy_specialist",
                 "document_validator", "fraud_analyst", "assessment_agent",
                 "claims_officer", "handoff_agent"}
    /\ specialists \in Orderings(SPECIALIST_ROLES \cap agents)
    /\ round_counter = 0
    /\ last_ledger_state = NoLedgerState
    /\ sessions = [id \in CaseIds |->
                      IF id = "CLM-1" THEN NoDir ELSE OldSession(id)]
    /\ now = 1
    /\ io_faulty = FALSE
    /\ other = IdleTask
    /\ pc = "idle"
    /\ context = <<>>
    /\ chat_history = <<>>
    /\ claim_id = None
    /\ spec_idx = 0
    /\ result = NoResult
    /\ invoked = <<>>
    /\ entry = NoEntry
    /\ task_ledger = <<>>
    /\ op = NoOp
    /\ saved = NoSaved

NextConcurrent == Next \/ Switch

SpecConcurrent == InitConcurrent /\ [][NextConcurrent]_vars

\* The orchestrator on a file system whose writes can fail.
SpecFaults == InitFaults /\ [][Next]_vars

TypeOK == pc \in {"idle", "p1_intake", "p1_policy", "p1_docs", "check1",
                  "p2_enter", "p2_loop", "p2_spec", "p2_round_end", "check2",
                  "p3_assess", "p3_officer", "p3_handoff", "finish", "done"}

----------------------------------------------------------------------------
(* Properties of process_claim and continue_claim *)

Phases(inv) == {inv[i].phase : i \in DOMAIN inv}

NotReviewed(ctx) == ~Get(ctx, "agent_reviewed", FALSE)

\* Phase 1 has just finished for a case that is not reviewed, on an
\* orchestrator with human-in-loop pausing.
Phase1FinishedUnreviewed ==
    /\ pc = "check1"
    /\ enable_human_in_loop
    /\ NotReviewed(context)

\* C1: with human-in-loop enabled and the case not reviewed, a Phase 1 that
\* ends with a non-empty missing_documents makes the call return a paused
\* result carrying the context's list, without any Phase 2 or Phase 3
\* invocation, and leaves a session whose metadata status is
\* paused_after_phase1.
C1_PauseAfterPhase1 ==
    [][(Phase1FinishedUnreviewed
           /\ Get(context, "missing_documents", <<>>) # <<>>)
       => /\ pc' = "done"
          /\ result'.kind = "returned"
          /\ result'.value.status = "paused"
          /\ result'.value.missing_documents = context.missing_documents
          /\ Phases(invoked') \subseteq {1}
          /\ session_exists(sessions', claim_id)
          /\ load_session(sessions', claim_id).metadata.status
                 = "paused_after_phase1"]_vars

C1_Witness ==
    /\ pc = "done"
    /\ entry.kind = "process"
    /\ enable_human_in_loop
    /\ NotReviewed(context)
    /\ result.kind = "returned"
    /\ result.value.status = "paused"
    /\ result.value.missing_documents = <<"police_report">>
    /\ Len(invoked) = 3
    /\ sessions[claim_id].session.data.status = "paused_after_phase1"

\* C2: a call of process_claim always ends by returning a result; no
\* exception reaches the caller.
C2_ProcessNeverRaises ==
    (pc = "done" /\ entry.kind = "process") => result.kind = "returned"

\* C3: when an agent invocation raises, no further agent is invoked, the
\* session of the claim is saved with metadata status "error" and with the
\* context and transcript of the moment of the failure, and the call returns
\* a result with status "error" and the exception message.
C3_ActorFailure ==
    (pc = "done" /\ entry.failure.kind = "actor")
    => /\ Len(invoked) = entry.failure.invoked
       /\ result.kind = "returned"
       /\ result.value.status = "error"
       /\ result.value.error = "agent invocation failed"
       /\ LET session_data == load_session(sessions, claim_id) IN
          /\ session_data.found
          /\ session_data.metadata.status = "error"
          /\ session_data.context = JsonDump(entry.failure.context)
          /\ SameRoleAndContent(session_data.chat_history,
                                entry.failure.chat_history)

C3_Witness ==
    /\ pc = "done"
    /\ entry.failure.kind = "actor"
    /\ entry.failure.phase = 2
    /\ result.kind = "returned"
    /\ result.value.status = "error"
    /\ sessions[claim_id].session.data.status = "error"

ResultStatuses == {"approved", "denied", "stalled", "timeout", "paused", "error"}

\* C4: every result returned by process_claim or continue_claim has a status
\* among approved, denied, stalled, timeout, paused and error.
C4_StatusInEnum ==
    result.kind = "returned" => result.value.status \in ResultStatuses

\* The evidence types a resume supplies: the type of every document and of
\* every note that has one.
Supplied(evidence) ==
    LET items == Get(evidence, "documents", <<>>) \o Get(evidence, "notes", <<>>)
    IN  {items[i].type : i \in {j \in DOMAIN items : "type" \in DOMAIN items[j]}}

\* The missing_documents list of the session a resume starts from.
SavedMissing ==
    Get(load_session(entry.sessions, entry.id).context, "missing_documents",
        <<>>)

\* C6: a resume re-enters process_claim with a context whose
\* missing_documents is the saved list without the supplied evidence types,
\* every other entry kept in its place.
C6_ResumeRemovesSupplied ==
    (entry.kind = "resume" /\ session_exists(entry.sessions, entry.id))
    => Get(context, "missing_documents", <<>>)
           = SelectSeq(SavedMissing,
                       LAMBDA doc : doc \notin Supplied(entry.evidence))

C6_Witness ==
    /\ entry.kind = "resume"
    /\ pc = "p1_intake"
    /\ SavedMissing = OldMissing
    /\ Supplied(entry.evidence) = {"repair_estimate"}
    /\ context.missing_documents = <<"medical_report", "police_report">>

\* C7: a resume of a claim without a persisted session (no directory, or a
\* directory without session.json) raises ValueError, invokes no agent and
\* leaves the session store as it was.
C7_ResumeNotFound ==
    (entry.kind = "resume"
        /\ ~(entry.sessions[entry.id].exists
                /\ entry.sessions[entry.id].session.present))
    => /\ pc = "done"
       /\ result = Raised("ValueError")
       /\ invoked = <<>>
       /\ sessions = entry.sessions

C7_Witness ==
    /\ entry.kind = "resume"
    /\ entry.sessions[entry.id].exists
    /\ ~entry.sessions[entry.id].session.present
    /\ result = Raised("ValueError")

\* C10: with human-in-loop enabled and the case not reviewed, a Phase 1 that
\* ends with a non-empty missing_information and an empty missing_documents
\* pauses the call as missing documents do: the call returns at once a
\* paused result with termination_reason "missing_documents", the missing
\* lists and resume_instructions, and no Phase 2 or Phase 3 agent is invoked.
C10_PauseOnMissingInformation ==
    [][(Phase1FinishedUnreviewed
           /\ Get(context, "missing_documents", <<>>) = <<>>
           /\ Get(context, "missing_information", <<>>) # <<>>)
       => /\ pc' = "done"
          /\ result'.kind = "returned"
          /\ result'.value.status = "paused"
          /\ result'.value.termination_reason = "missing_documents"
          /\ "missing_documents" \in DOMAIN result'.value
          /\ "resume_instructions" \in DOMAIN result'.value
          /\ Phases(invoked') \subseteq {1}]_vars

PausedStatuses == {"paused_after_phase1", "paused_after_phase2"}

\* C11: a call whose context marks the case reviewed (agent_reviewed true)
\* does not return a paused result and leaves no paused_* session behind,
\* whatever the missing lists and the human-in-loop setting are.
C11_NoPauseWhenReviewed ==
    (pc = "done" /\ entry.kind = "process" /\ result.kind = "returned"
        /\ Get(context, "agent_reviewed", FALSE))
    => /\ result.value.status # "paused"
       /\ sessions[claim_id].session.data.status \notin PausedStatuses

TerminalStatuses == {"approved", "denied", "stalled", "timeout"}

\* session.json of the directory carries archived_at and status "completed".
Archived(dir) ==
    /\ dir.session.present
    /\ "archived_at" \in DOMAIN dir.session.data
    /\ dir.session.data.status = "completed"

\* C12: after a call returned, the session of the claim is archived
\* (archived_at present, status "completed") exactly when the result is
\* terminal (approved, denied, stalled, timeout), and a paused result leaves
\* a session that is not archived and has a paused_* status.
C12_ArchivedIffTerminal ==
    (pc = "done" /\ result.kind = "returned")
    => /\ Archived(sessions[claim_id])
              <=> result.value.status \in TerminalStatuses
       /\ result.value.status = "paused"
              => /\ session_exists(sessions, claim_id)
                 /\ "archived_at" \notin DOMAIN sessions[claim_id].session.data
                 /\ sessions[claim_id].session.data.status \in PausedStatuses

\* C13: when should_terminate returns true with reason denied_sla_breach,
\* the agent_decision of the context is "deny" afterwards.
C13_SlaBreachForcesDeny ==
    (op.name = "should_terminate" /\ op.ret
        /\ context.termination_reason = "denied_sla_breach")
    => Get(context, "agent_decision", None) = "deny"

----------------------------------------------------------------------------
(* ClaimsMagenticManager used on its own: gather_final_result on any context *)

\* What a context handed to gather_final_result can carry besides the fields
\* of PolicyContexts: no termination_reason, one of the six reasons, a value
\* that is none of them, and a denial_reason of its own.
ReasonInputs ==
    {<<>>, [termination_reason |-> "exception"]}
    \cup {[termination_reason |-> ReasonOrder[i]] : i \in DOMAIN ReasonOrder}
    \cup {[termination_reason |-> r, denial_reason |-> "policy_exclusion"] :
              r \in {"denied_manual", "denied_sla_breach"}}

ResultContexts ==
    {Update(c, e) : c \in PolicyContexts, e \in ReasonInputs}

InitResult ==
    /\ enable_human_in_loop \in BOOLEAN
    /\ max_rounds = MaxRoundsCfg
    /\ agents = {}
    /\ specialists = <<>>
    /\ round_counter \in 0..MaxRoundsCfg
    /\ last_ledger_state = NoLedgerState
    /\ sessions = [id \in CaseIds |-> NoDir]
    /\ now = 0
    /\ io_faulty = FALSE
    /\ other = NoTask
    /\ pc = "idle"
    /\ context \in ResultContexts
    /\ chat_history = <<>>
    /\ claim_id = "CLM-1"
    /\ spec_idx = 0
    /\ result = NoResult
    /\ invoked = <<>>
    /\ entry = NoEntry
    /\ task_ledger = <<>>
    /\ op = NoOp
    /\ saved = NoSaved

\* gather_final_result(context, chat_history); `evaluated` tells whether
\* should_terminate ran on the context before.
ResultGather ==
    /\ op' = [name |-> "gather_final_result", context |-> context,
              evaluated |-> op.name # "none",
              ret |-> gather_final_result(context, chat_history)]
    /\ UNCHANGED <<configVars, managerVars, callVars, sessions, now, io_faulty, other,
                   task_ledger, saved>>

NextResult == PolicyShouldTerminate \/ ResultGather

SpecResult == InitResult /\ [][NextResult]_vars

----------------------------------------------------------------------------
(* Properties of gather_final_result *)

\* C14: gather_final_result on a context with agent_decision approve,
\* handoff_status ready_for_settlement and no missing items returns status
\* "approved" with a handoff_payload whose decision is "approve", whether or
\* not should_terminate ran on the context before.
C14_ApprovedWhenReady ==
    (op.name = "gather_final_result"
        /\ Get(op.context, "agent_decision", None) = "approve"
        /\ Get(op.context, "handoff_status", None) = "ready_for_settlement"
        /\ Get(op.context, "missing_documents", <<>>) = <<>>
        /\ Get(op.context, "missing_information", <<>>) = <<>>)
    => /\ op.ret.status = "approved"
       /\ "handoff_payload" \in DOMAIN op.ret
       /\ op.ret.handoff_payload.decision = "approve"

\* The status the specification assigns to a termination reason.
StatusOfReason(reason) ==
    IF reason = "approved_handoff_ready" THEN "approved"
    ELSE IF reason \in {"denied_manual", "denied_sla_breach"} THEN "denied"
    ELSE IF reason = "stalled" THEN "stalled"
    ELSE IF reason = "max_rounds_exceeded" THEN "timeout"
    ELSE IF reason = "human_in_loop_required" THEN "paused"
    ELSE "unknown"

\* C15: the status of gather_final_result is a function of termination_reason
\* alone (absent counts as unknown), rounds_executed is the round counter, and
\* handoff_payload is present exactly for approved (decision approve) and
\* denied (decision deny, denial_reason "other" when sla_breached is set).
C15_StatusFromReason ==
    op.name = "gather_final_result" =>
        LET reason == Get(op.context, "termination_reason", "unknown")
            r == op.ret
        IN  /\ r.status = StatusOfReason(reason)
            /\ r.termination_reason = reason
            /\ r.rounds_executed = round_counter
            /\ "handoff_payload" \in DOMAIN r
                   <=> r.status \in {"approved", "denied"}
            /\ r.status = "approved" => r.handoff_payload.decision = "approve"
            /\ r.status = "denied" =>
                   /\ r.handoff_payload.decision = "deny"
                   /\ Get(op.context, "sla_breached", FALSE)
                          => r.handoff_payload.denial_reason = "other"

\* a denial for an SLA breach on a context that names its own denial_reason
C15_Witness ==
    /\ op.name = "gather_final_result"
    /\ op.ret.status = "denied"
    /\ Get(op.context, "termination_reason", None) = "denied_sla_breach"
    /\ Get(op.context, "sla_breached", FALSE)
    /\ Get(op.context, "denial_reason", None) = "policy_exclusion"
    /\ op.ret.handoff_payload.denial_reason = "other"
    /\ round_counter > 0

----------------------------------------------------------------------------
(* Properties of the Phase 2 loop *)

\* Every agent invocation returns and the event loop resumes the call.
SpecLive == Init /\ [][Next]_vars /\ WF_vars(Next)

\* Phase 2 rounds of a call, counted in its invocations: a round starts with
\* the first specialist and is complete with the last one.
StartedRounds(inv) ==
    IF specialists = <<>> THEN 0
    ELSE Cardinality({i \in DOMAIN inv :
                         inv[i].phase = 2 /\ inv[i].role = specialists[1]})

CompletedRounds(inv) ==
    IF specialists = <<>> THEN 0
    ELSE Cardinality({i \in DOMAIN inv :
                         /\ inv[i].phase = 2
                         /\ inv[i].role = specialists[Len(specialists)]})

\* C16: a call runs at most max_rounds Phase 2 rounds (none when max_rounds
\* is 0); at the top of the loop it leaves Phase 2 as soon as a termination
\* condition holds, which includes round counter >= max_rounds; after a
\* round it leaves when human-in-loop is on and missing_documents is
\* non-empty; and once in the loop the call always gets out of it.
C16_Phase2LoopBounded ==
    /\ [][/\ pc' # "idle" => StartedRounds(invoked') <= max_rounds
          /\ (pc = "p2_loop"
                 /\ Satisfied(Conditions(context, <<>>, last_ledger_state)) # {})
             => pc' = "check2"
          /\ (pc = "p2_round_end" /\ enable_human_in_loop
                 /\ Get(context, "missing_documents", <<>>) # <<>>)
             => pc' = "check2"]_vars
    /\ (pc = "p2_loop") ~> (pc \in {"check2", "done"})

\* the loop ran max_rounds > 0 full rounds and stopped for max_rounds_exceeded
C16_Witness ==
    /\ pc = "check2"
    /\ max_rounds = MaxRoundsCfg
    /\ CompletedRounds(invoked) = max_rounds
    /\ round_counter = max_rounds
    /\ Get(context, "termination_reason", None) = "max_rounds_exceeded"

\* C17: a call starts its phases with round counter 0 and no remembered
\* ledger state, whatever the previous call on the orchestrator left; the
\* rounds_executed of its result is the number of Phase 2 rounds the call
\* itself completed, and a timeout means the call ran max_rounds rounds.
C17_ResetBetweenCalls ==
    /\ pc = "p1_intake" =>
           round_counter = 0 /\ last_ledger_state = NoLedgerState
    /\ pc = "p2_loop" => round_counter = CompletedRounds(invoked)
    /\ (pc = "done" /\ result.kind = "returned"
           /\ "rounds_executed" \in DOMAIN result.value)
       => /\ result.value.rounds_executed = CompletedRounds(invoked)
          /\ result.value.status = "timeout"
                 => CompletedRounds(invoked) = max_rounds

\* the previous call left the counter exhausted and this call still ran all
\* of its rounds
C17_Witness ==
    /\ pc = "done"
    /\ max_rounds > 0
    /\ entry.rounds_before >= max_rounds
    /\ result.kind = "returned"
    /\ result.value.status = "timeout"
    /\ result.value.rounds_executed = max_rounds
    /\ CompletedRounds(invoked) = max_rounds
    /\ specialists # <<>>

----------------------------------------------------------------------------
(* Properties of concurrent calls *)

\* Both calls of a concurrent run have returned a result of
\* gather_final_result.
BothGathered ==
    /\ pc = "done"
    /\ other.pc = "done"
    /\ result.kind = "returned"
    /\ other.result.kind = "returned"
    /\ "rounds_executed" \in DOMAIN result.value
    /\ "rounds_executed" \in DOMAIN other.result.value
    /\ claim_id # other.claim_id

\* C18: two calls for different cases that interleave at their agent
\* invocations each behave as if alone: neither starts more than max_rounds
\* Phase 2 rounds, the rounds_executed of each result is the number of rounds
\* that call completed, and a call times out only after max_rounds rounds of
\* its own.
C18_ConcurrentCallsIndependent ==
    /\ other.pc \notin {"none", "idle"} =>
           /\ StartedRounds(invoked) <= max_rounds
           /\ StartedRounds(other.invoked) <= max_rounds
    /\ BothGathered =>
           /\ result.value.rounds_executed = CompletedRounds(invoked)
           /\ other.result.value.rounds_executed
                  = CompletedRounds(other.invoked)
           /\ result.value.status = "timeout"
                  => CompletedRounds(invoked) = max_rounds
           /\ other.result.value.status = "timeout"
                  => CompletedRounds(other.invoked) = max_rounds

----------------------------------------------------------------------------
(* SessionStore shared by two writers: save_session calls for one claim     *)
(* issued by two processes or threads that use the same base_dir            *)

\* The arguments of the racing save_session calls.
RaceArgs(id, t) ==
    {[chat_history |-> h, context |-> a.context, metadata |-> a.metadata,
      written |-> 0] :
        h \in {<<>>} \cup {<<m>> : m \in StoreMessages},
        a \in StoreSaveArgs(id, t)}

InitRace ==
    /\ enable_human_in_loop = TRUE
    /\ max_rounds = MaxRoundsCfg
    /\ agents = {}
    /\ specialists = <<>>
    /\ round_counter = 0
    /\ last_ledger_state = NoLedgerState
    /\ claim_id = "CLM-1"
    /\ \E d \in DirInits(claim_id) :
          sessions = [id \in CaseIds |->
                         IF id = claim_id THEN d ELSE OldSession(id)]
    /\ now = 0
    /\ io_faulty = FALSE
    /\ other = NoTask
    /\ pc = "idle"
    /\ context = <<>>
    /\ chat_history = <<>>
    /\ spec_idx = 0
    /\ result = NoResult
    /\ invoked = <<>>
    /\ entry = NoEntry
    /\ task_ledger = <<>>
    /\ \E w1 \in RaceArgs(claim_id, 0), w2 \in RaceArgs(claim_id, 0) :
          op = [name |-> "writers", w |-> <<w1, w2>>]
    /\ saved = NoSaved

\* The directory after the k-th write of save_session alone: 1 context.json,
\* 2 history.jsonl, 3 session.json.
save_session_write(dir, id, w, t, k) ==
    LET full == save_session_writes(dir, id, w.chat_history, w.context,
                                    w.metadata, t, 3)
    IN  [exists |-> TRUE,
         context |-> IF k = 1 THEN full.context ELSE dir.context,
         history |-> IF k = 2 THEN full.history ELSE dir.history,
         session |-> IF k = 3 THEN full.session ELSE dir.session]

\* One of the two save_session calls does its next file write.
RaceWrite ==
    \E i \in 1..2 :
        /\ op.name = "writers"
        /\ op.w[i].written < 3
        /\ sessions' = [sessions EXCEPT ![claim_id] =
               save_session_write(sessions[claim_id], claim_id, op.w[i], now,
                                  op.w[i].written + 1)]
        /\ op' = [op EXCEPT !.w[i].written = op.w[i].written + 1]
        /\ now' = IF op.w[i].written = 2 THEN Tick(now) ELSE now
        /\ UNCHANGED <<configVars, managerVars, callVars, io_faulty, other,
                       task_ledger, saved>>

NextRace == RaceWrite

SpecRace == InitRace /\ [][NextRace]_vars

\* The directory holds exactly what the save_session call w wrote.
HoldsCall(dir, id, w) ==
    /\ dir.context = File(JsonDump(w.context))
    /\ dir.history = File(HistoryLines(w.chat_history))
    /\ \E t \in 0..MaxClock :
           dir.session = File(JsonDump(session_metadata(id, w.chat_history,
                                           w.context, w.metadata, t)))

\* C19: once the save_session calls for a claim have completed, the three
\* files hold the arguments of one of the calls: the last writer wins and
\* the files never mix two calls.
C19_NoTornSave ==
    (op.name = "writers" /\ \A i \in 1..2 : op.w[i].written = 3)
    => \E i \in 1..2 : HoldsCall(sessions[claim_id], claim_id, op.w[i])

----------------------------------------------------------------------------
(* ClaimsMagenticManager used on its own: _is_stalled on a growing ledger *)

InitStall ==
    /\ enable_human_in_loop = TRUE
    /\ max_rounds = MaxRoundsCfg
    /\ agents = {}
    /\ specialists = <<>>
    /\ round_counter = 0
    /\ last_ledger_state = NoLedgerState
    /\ sessions = [id \in CaseIds |-> NoDir]
    /\ now = 0
    /\ io_faulty = FALSE
    /\ other = NoTask
    /\ pc = "idle"
    /\ context = <<>>
    /\ chat_history = <<>>
    /\ claim_id = "CLM-1"
    /\ spec_idx = 0
    /\ result = NoResult
    /\ invoked = <<>>
    /\ entry = NoEntry
    /\ task_ledger = <<>>
    /\ op = NoOp
    /\ saved = NoSaved

\* The entries of the growing ledger: those of LedgerEntries and a later
\* invocation of fraud_analyst with another result.
StallEntries ==
    LedgerEntries \cup
    {[agent_name |-> "fraud_analyst", result_summary |-> "flagged",
      metadata |-> <<>>, timestamp |-> 1]}

\* An agent invocation is recorded in the ledger.
StallLedgerGrows ==
    \E e \in StallEntries :
        /\ Len(task_ledger) < MaxLedger
        /\ task_ledger' = Append(task_ledger, e)
        /\ UNCHANGED <<configVars, managerVars, callVars, sessions, now,
                       io_faulty, other, op, saved>>

\* _is_stalled(task_ledger)
StallCheck ==
    LET r == _is_stalled(task_ledger, last_ledger_state) IN
    /\ last_ledger_state' = r.last
    /\ op' = [name |-> "_is_stalled", ledger |-> task_ledger,
              last |-> last_ledger_state, ret |-> r.ret]
    /\ UNCHANGED <<configVars, round_counter, callVars, sessions, now,
                   io_faulty, other, task_ledger, saved>>

NextStall == StallLedgerGrows \/ StallCheck

SpecStall == InitStall /\ [][NextStall]_vars

\* The last stall_threshold entries of the ledger.
Window(ledger) == (Len(ledger) - stall_threshold + 1)..Len(ledger)

\* C20: _is_stalled returns true exactly when the ledger has at least
\* stall_threshold entries and the last stall_threshold of them name the
\* same agent, on every evaluation, repeated ones included.
C20_StalledIffSameAgent ==
    op.name = "_is_stalled" =>
        (op.ret <=>
            /\ Len(op.ledger) >= stall_threshold
            /\ \A i, j \in Window(op.ledger) :
                   op.ledger[i].agent_name = op.ledger[j].agent_name)

----------------------------------------------------------------------------
(* Stall detection in a Phase 2 run *)

\* Registries of the stall runs: those of Registries and one whose only
\* specialist is fraud_analyst, so that every round invokes the same agent.
StallRegistries ==
    Registries \cup
    {{"intake_coordinator", "document_validator", "fraud_analyst",
      "assessment_agent", "claims_officer", "handoff_agent"}}

\* An orchestrator built with stall_threshold < max_rounds.
InitStallRun ==
    /\ enable_human_in_loop \in BOOLEAN
    /\ max_rounds = stall_threshold + 1
    /\ agents \in StallRegistries
    /\ specialists \in Orderings(SPECIALIST_ROLES \cap agents)
    /\ round_counter = 0
    /\ last_ledger_state = NoLedgerState
    /\ \E d \in DirInits("CLM-1") :
          sessions = [id \in CaseIds |->
                         IF id = "CLM-1" THEN d ELSE OldSession(id)]
    /\ now = 1
    /\ io_faulty = FALSE
    /\ other = NoTask
    /\ pc = "idle"
    /\ context = <<>>
    /\ chat_history = <<>>
    /\ claim_id = None
    /\ spec_idx = 0
    /\ result = NoResult
    /\ invoked = <<>>
    /\ entry = NoEntry
    /\ task_ledger = <<>>
    /\ op = NoOp
    /\ saved = NoSaved

SpecStallRun == InitStallRun /\ [][Next]_vars

\* The rounds of the call invoked one and the same specialist, which never
\* yielded a message: no round made progress.
NoProgressRounds ==
    /\ Len(specialists) = 1
    /\ \A i \in DOMAIN chat_history :
           chat_history[i] # AgentReply(specialists[1])

\* C21: in Phase 2 the ledger handed to should_terminate has one entry per
\* completed round, and a call whose rounds make no progress for
\* stall_threshold rounds, with stall_threshold < max_rounds, returns status
\* "stalled" with termination_reason "stalled" before max_rounds rounds ran.
C21_StalledBeforeMaxRounds ==
    /\ pc = "p2_loop" => Len(task_ledger) = CompletedRounds(invoked)
    /\ (/\ pc = "done"
        /\ result.kind = "returned"
        /\ "rounds_executed" \in DOMAIN result.value
        /\ stall_threshold < max_rounds
        /\ NoProgressRounds
        /\ CompletedRounds(invoked) >= stall_threshold)
       => /\ result.value.status = "stalled"
          /\ result.value.termination_reason = "stalled"
          /\ CompletedRounds(invoked) < max_rounds

----------------------------------------------------------------------------
(* continue_claim on sessions that are not paused *)

EmptyStore == [id \in CaseIds |-> NoDir]

\* The session directory left by a call whose intake_coordinator raised: the
\* except block of process_claim saved it with status "error".
ErrorSession(id) ==
    _save_session_snapshot(EmptyStore, id, <<>>,
        Put(_bootstrap_context([claim_id |-> id], <<>>), "debug_log_path",
            DebugLogPath(id)),
        "error", 0, 3)[id]

\* The session directory left by a call that ran one Phase 2 round with two
\* specialists and ended with a timeout: saved as completed and archived.
CompletedSession(id) ==
    LET ctx == Update(_bootstrap_context([claim_id |-> id], <<>>),
                      [debug_log_path |-> DebugLogPath(id), ack_sent |-> TRUE,
                       state |-> "data_gathering_complete",
                       termination_reason |-> "max_rounds_exceeded"])
        hist == <<AgentReply("intake_coordinator"),
                  AgentReply("policy_specialist"),
                  AgentReply("document_validator"),
                  AgentReply("policy_specialist"),
                  AgentReply("fraud_analyst")>>
        res == [status |-> "timeout",
                termination_reason |-> "max_rounds_exceeded"]
    IN  archive_session(ArchiveSave(EmptyStore, id, hist, ctx, res, 0, 3),
                        id, 0)[id]

StoredDirs(id) == {OldSession(id), ErrorSession(id), CompletedSession(id)}

\* One call on an orchestrator whose store holds a paused, a failed or a
\* completed session of CLM-1.
InitStored ==
    /\ enable_human_in_loop \in BOOLEAN
    /\ max_rounds \in 0..MaxRoundsCfg
    /\ agents \in Registries
    /\ specialists \in Orderings(SPECIALIST_ROLES \cap agents)
    /\ round_counter = 0
    /\ last_ledger_state = NoLedgerState
    /\ \E d \in StoredDirs("CLM-1") :
          sessions = [id \in CaseIds |->
                         IF id = "CLM-1" THEN d ELSE OldSession(id)]
    /\ now = 1
    /\ io_faulty = FALSE
    /\ other = NoTask
    /\ pc = "idle"
    /\ context = <<>>
    /\ chat_history = <<>>
    /\ claim_id = None
    /\ spec_idx = 0
    /\ result = NoResult
    /\ invoked = <<>>
    /\ entry = NoEntry
    /\ task_ledger = <<>>
    /\ op = NoOp
    /\ saved = NoSaved

SpecStored == InitStored /\ [][Next]_vars

\* The call is a continue_claim for a stored session whose status is not a
\* paused one.
ResumeOfUnpaused ==
    /\ entry.kind = "resume"
    /\ session_exists(entry.sessions, entry.id)
    /\ Get(load_session(entry.sessions, entry.id).metadata, "status", None)
           \notin PausedStatuses

\* C22: continue_claim for a stored session that is not paused raises
\* ValueError, invokes no agent and leaves the store as it was.
C22_ResumeOnlyPaused ==
    ResumeOfUnpaused =>
        /\ pc = "done"
        /\ result = Raised("ValueError")
        /\ invoked = <<>>
        /\ sessions = entry.sessions

----------------------------------------------------------------------------
(* The round counter of ClaimsMagenticManager used on its own *)

\* The longest run of record_round calls without a reset.
MaxRecorded == MaxRoundsCfg + 3

\* op.calls counts the record_round calls since the manager was built or
\* reset; op.ret is the answer of the last rounds_exhausted().
InitRounds ==
    /\ enable_human_in_loop \in BOOLEAN
    /\ max_rounds \in 0..MaxRoundsCfg
    /\ agents = {}
    /\ specialists = <<>>
    /\ round_counter = 0
    /\ last_ledger_state = NoLedgerState
    /\ sessions = [id \in CaseIds |-> NoDir]
    /\ now = 0
    /\ io_faulty = FALSE
    /\ other = NoTask
    /\ pc = "idle"
    /\ context = <<>>
    /\ chat_history = <<>>
    /\ claim_id = None
    /\ spec_idx = 0
    /\ result = NoResult
    /\ invoked = <<>>
    /\ entry = NoEntry
    /\ task_ledger = <<>>
    /\ op = [name |-> "__init__", calls |-> 0, ret |-> FALSE]
    /\ saved = NoSaved

RoundsFrame ==
    UNCHANGED <<configVars, callVars, sessions, now, io_faulty, other,
                task_ledger, saved>>

RoundsReset ==
    /\ round_counter' = reset.round_counter
    /\ last_ledger_state' = reset.last_ledger_state
    /\ op' = [name |-> "reset", calls |-> 0, ret |-> op.ret]
    /\ RoundsFrame

RoundsRecord ==
    /\ op.calls < MaxRecorded
    /\ round_counter' = record_round
    /\ op' = [name |-> "record_round", calls |-> op.calls + 1, ret |-> op.ret]
    /\ UNCHANGED last_ledger_state
    /\ RoundsFrame

RoundsExhausted ==
    /\ op' = [name |-> "rounds_exhausted", calls |-> op.calls,
              ret |-> rounds_exhausted]
    /\ UNCHANGED managerVars
    /\ RoundsFrame

NextRounds == RoundsReset \/ RoundsRecord \/ RoundsExhausted

SpecRounds == InitRounds /\ [][NextRounds]_vars

\* C23: rounds_exhausted() is true exactly when record_round() was called at
\* least max_rounds times since the last reset(): true after max_rounds
\* calls, false after max_rounds - 1.
C23_ExhaustedAfterMaxRounds ==
    op.name = "rounds_exhausted" => (op.ret <=> op.calls >= max_rounds)

\* rounds_exhausted() answered true right at max_rounds > 0 recorded rounds
C23_Witness ==
    /\ op.name = "rounds_exhausted"
    /\ max_rounds = MaxRoundsCfg
    /\ op.calls = max_rounds
    /\ op.ret
    /\ round_counter = max_rounds

----------------------------------------------------------------------------
(* Lookup of sessions in the store *)

\* C24: in every state of the store load_session(id) finds no session
\* exactly when session.json is absent for id, whatever else the directory
\* holds, and session_exists(id) and the membership of id in list_sessions()
\* are true exactly when load_session(id) returns a session.
C24_LookupsAgree ==
    \A id \in CaseIds :
        LET found == load_session(sessions, id).found IN
        /\ ~found <=> ~sessions[id].session.present
        /\ session_exists(sessions, id) <=> found
        /\ id \in list_sessions(sessions) <=> found

\* a save that stopped before session.json left context.json and
\* history.jsonl of CLM-1 behind: the claim is not found, the other one is
C24_Witness ==
    /\ sessions["CLM-1"].exists
    /\ sessions["CLM-1"].context.present
    /\ sessions["CLM-1"].history.present
    /\ ~sessions["CLM-1"].session.present
    /\ ~load_session(sessions, "CLM-1").found
    /\ list_sessions(sessions) = {"CLM-2"}
    /\ pc = "done"

----------------------------------------------------------------------------
(* The result of a call that ran Phase 3 *)

\* The call returned after Phase 3 ran to its end: its last invocation is the
\* handoff_agent of Phase 3 and nothing failed.
Phase3Completed ==
    /\ pc = "done"
    /\ result.kind = "returned"
    /\ entry.failure = NoFailure
    /\ invoked # <<>>
    /\ invoked[Len(invoked)] = [phase |-> 3, role |-> "handoff_agent"]

\* C25: a call that reaches the end of Phase 3 with agent_decision "approve"
\* and handoff_status "ready_for_settlement" in its context returns status
\* "approved", termination_reason "approved_handoff_ready" and a settlement
\* handoff_payload whose decision is "approve".
C25_ApprovedAfterPhase3 ==
    (/\ Phase3Completed
     /\ Get(context, "agent_decision", None) = "approve"
     /\ Get(context, "handoff_status", None) = "ready_for_settlement")
    => /\ result.value.status = "approved"
       /\ result.value.termination_reason = "approved_handoff_ready"
       /\ "handoff_payload" \in DOMAIN result.value
       /\ result.value.handoff_payload.decision = "approve"

----------------------------------------------------------------------------
(* The order of the specialists in a Phase 2 round *)

\* The roles of SPECIALIST_ROLES in the order the source lists them.
DeclaredSpecialists ==
    <<"policy_specialist", "medical_specialist", "fraud_analyst",
      "claims_history_analyst", "vendor_specialist">>

\* The registered specialists in that order: the order a configuration fixes.
ConfiguredOrder ==
    SelectSeq(DeclaredSpecialists, LAMBDA role : role \in agents)

\* The roles of the Phase 2 invocations of a call, in order.
Phase2Roles(inv) ==
    LET p2 == SelectSeq(inv, LAMBDA e : e.phase = 2)
    IN  [k \in DOMAIN p2 |-> p2[k].role]

\* C26: the Phase 2 invocations of a call are whole rounds, each invoking
\* every registered specialist once in the order fixed by the configuration
\* (the same in every round and every run), and between two invocations of a
\* round nothing is checked: the call goes from one specialist to the next
\* with its context untouched.
C26_RoundOrderFixed ==
    /\ [](\A k \in DOMAIN Phase2Roles(invoked) :
             Phase2Roles(invoked)[k]
                 = ConfiguredOrder[((k - 1) % Len(ConfiguredOrder)) + 1])
    /\ [][(pc = "p2_spec" /\ spec_idx < Len(specialists) /\ pc' # "done")
             => /\ pc' = "p2_spec"
                /\ spec_idx' = spec_idx + 1
                /\ context' = context]_vars

----------------------------------------------------------------------------
(* Phase 2 entered with missing items *)

MissingItems(ctx) ==
    Range(Get(ctx, "missing_information", <<>>))
        \cup Range(Get(ctx, "missing_documents", <<>>))

\* C27: when Phase 2 is entered with missing_documents or missing_information
\* non-empty it is skipped: the call goes on to the check after Phase 2 with
\* no specialist invoked, the round counter and the state marker as they
\* were, and a handoff_payload in the context whose decision is "PENDING" and
\* whose notes name every missing item; nothing else in the context changes.
C27_Phase2SkippedWhenMissing ==
    [][(pc = "p2_enter" /\ MissingItems(context) # {})
          => /\ pc' = "check2"
             /\ invoked' = invoked
             /\ chat_history' = chat_history
             /\ round_counter' = round_counter
             /\ context'.state = context.state
             /\ context'.handoff_payload.decision = "PENDING"
             /\ Range(context'.handoff_payload.notes) = MissingItems(context)
             /\ \A k \in DOMAIN context : context'[k] = context[k]
             /\ DOMAIN context' = DOMAIN context \cup {"handoff_payload"}]_vars

\* Phase 2 was skipped for a claim that misses information (reviewed, so the
\* call did not stop before) although rounds were left and specialists are
\* registered
C27_Witness ==
    /\ pc = "check2"
    /\ specialists # <<>>
    /\ max_rounds > 0
    /\ round_counter = 0
    /\ Get(context, "missing_information", <<>>) # <<>>
    /\ "handoff_payload" \in DOMAIN context
    /\ context.handoff_payload.decision = "PENDING"
    /\ context.handoff_payload.notes # <<>>
    /\ context.state = "validation_complete"
    /\ \A i \in DOMAIN invoked : invoked[i].phase = 1

----------------------------------------------------------------------------
(* The invocations of Phase 1 and Phase 3 *)

\* The roles a call invoked in phase p, in order.
PhaseRoles(inv, p) ==
    LET sub == SelectSeq(inv, LAMBDA e : e.phase = p)
    IN  [k \in DOMAIN sub |-> sub[k].role]

\* The registered roles of a fixed list, in the order of the list.
Registered(roles) == SelectSeq(roles, LAMBDA role : role \in agents)

IsPrefix(s, t) ==
    /\ Len(s) <= Len(t)
    /\ \A i \in DOMAIN s : s[i] = t[i]

\* C28: the invocations of a call come phase by phase; those of Phase 1 are
\* the registered ones of intake_coordinator, policy_specialist and
\* document_validator, once each in that order and all of them once Phase 1
\* is over; those of Phase 3, if it runs, are the registered ones of
\* assessment_agent, claims_officer and handoff_agent, once each in that
\* order after every Phase 2 round and all of them when Phase 3 is over.
C28_FixedPhaseOrder ==
    /\ \A i, j \in DOMAIN invoked :
           i < j => invoked[i].phase <= invoked[j].phase
    /\ IsPrefix(PhaseRoles(invoked, 1), Registered(Phase1Roles))
    /\ IsPrefix(PhaseRoles(invoked, 3), Registered(Phase3Roles))
    /\ pc \notin {"idle", "p1_intake", "p1_policy", "p1_docs", "done"}
           => PhaseRoles(invoked, 1) = Registered(Phase1Roles)
    /\ pc \in {"p3_assess", "p3_officer", "p3_handoff"}
           => IsPrefix(PhaseRoles(invoked, 3),
                       Registered(SubSeq(Phase3Roles, 1,
                           CASE pc = "p3_assess" -> 0
                             [] pc = "p3_officer" -> 1
                             [] pc = "p3_handoff" -> 2)))
    /\ (pc = "finish" /\ PhaseRoles(invoked, 3) # <<>>)
           => PhaseRoles(invoked, 3) = Registered(Phase3Roles)

\* a call on a registry without policy_specialist and assessment_agent ran
\* Phase 1 and Phase 3 with the remaining roles in order
C28_Witness ==
    /\ pc = "done"
    /\ result.kind = "returned"
    /\ "policy_specialist" \notin agents
    /\ "assessment_agent" \notin agents
    /\ PhaseRoles(invoked, 1) = <<"intake_coordinator", "document_validator">>
    /\ PhaseRoles(invoked, 3) = <<"claims_officer", "handoff_agent">>

----------------------------------------------------------------------------
(* The transcript of a call *)

\* The transcript of the session a resume starts from.
SavedTranscript == load_session(entry.sessions, entry.id).chat_history

\* The positions after the saved transcript that hold the system message
\* about provided evidence.
EvidenceMessages ==
    {i \in DOMAIN chat_history :
        /\ i > Len(SavedTranscript)
        /\ chat_history[i].role = "SYSTEM"
        /\ chat_history[i].content # <<>>
        /\ chat_history[i].content[1] = "additional evidence"}

\* The transcript of a resumed call starts with the saved transcript, goes on
\* with one user message per supplied note and then, if an evidence item
\* carries a type, the one system message that names the provided types.
ResumeTranscript ==
    LET notes == Get(entry.evidence, "notes", <<>>)
        p == Len(SavedTranscript)
        k == p + Len(notes)
        typed == Supplied(entry.evidence) # {}
    IN  /\ IsPrefix(SavedTranscript, chat_history)
        /\ Len(chat_history) >= k + (IF typed THEN 1 ELSE 0)
        /\ \A i \in DOMAIN notes :
               /\ chat_history[p + i].role = "USER"
               /\ notes[i].content \in Range(chat_history[p + i].content)
        /\ EvidenceMessages = IF typed THEN {k + 1} ELSE {}
        /\ typed => Range(Tail(chat_history[k + 1].content))
                        = Supplied(entry.evidence)
        /\ Cardinality({i \in DOMAIN chat_history :
                           i > p /\ chat_history[i].role = "USER"})
               = Len(notes)
                 + (IF "original_content" \in DOMAIN context THEN 1 ELSE 0)

\* C29: every step of a call leaves the messages the transcript already had
\* in place and only appends to them, and the transcript of a resumed call
\* is the saved one followed by one user message per note and, when an
\* evidence item carries a type, exactly one system message naming the
\* provided types, before anything process_claim and the agents append.
C29_TranscriptAppendOnly ==
    /\ [][IsPrefix(chat_history, chat_history')]_vars
    /\ []((entry.kind = "resume" /\ session_exists(entry.sessions, entry.id))
             => ResumeTranscript)

\* a resume with an untyped document and a typed note went through its phases
C29_Witness ==
    /\ entry.kind = "resume"
    /\ pc = "done"
    /\ result.kind = "returned"
    /\ Len(SavedTranscript) > 0
    /\ Len(Get(entry.evidence, "notes", <<>>)) = 1
    /\ Supplied(entry.evidence) = {"repair_estimate"}
    /\ Cardinality(EvidenceMessages) = 1
    /\ Len(chat_history) > Len(SavedTranscript) + 2

----------------------------------------------------------------------------
(* The state marker of the context *)

\* The position of a state marker in the order of the workflow.
StateRank(state) ==
    CASE state = "intake" -> 0
      [] state = "validation_complete" -> 1
      [] state = "adaptive_gathering" -> 2
      [] state = "data_gathering_complete" -> 3
      [] state = "terminal" -> 4

\* The state marker of the session a resume starts from.
SavedState ==
    Get(load_session(entry.sessions, entry.id).context, "state", "intake")

\* C30: the state marker of a case only moves forward in the order intake,
\* validation_complete, adaptive_gathering, data_gathering_complete,
\* terminal: no step of a call sets it back, and a resumed call never holds a
\* marker that is behind the one its session was saved with.
C30_StateMovesForward ==
    /\ [][("state" \in DOMAIN context /\ "state" \in DOMAIN context')
             => StateRank(context'.state) >= StateRank(context.state)]_vars
    /\ []((/\ entry.kind = "resume"
           /\ session_exists(entry.sessions, entry.id)
           /\ "state" \in DOMAIN context)
          => StateRank(context.state) >= StateRank(SavedState))

=============================================================================
